---- MODULE Spec2Model ----
(***************************************************************************)
(* Model of the featurization layer (atomsci/ddm/pipeline/featurization.py) *)
(* and of the model-comparison layer (atomsci/ddm/pipeline/                 *)
(* compare_models.py).                                                      *)
(*                                                                          *)
(* Python strings whose characters matter (featurizer names, descriptor     *)
(* keys) are sequences of one-character strings. Data frames are records    *)
(* [cols, rows]: the set of column names and the sequence of rows.          *)
(***************************************************************************)
EXTENDS Integers, Sequences, FiniteSets, TLC

VARIABLES
    params,      \* the params Namespace of the current call / instance
    env,         \* what the collaborators (datastore, filesystem, toolkits) answer
    supported,   \* class attribute supported_descriptor_types, per class
    obj,         \* the Featurization object (or NoObj)
    raised,      \* the exception the last operation raised ("none" if it returned)
    ncalls,      \* rows the instance was given so far, over all its calls
    reads,       \* number of reads of the descriptor table (filesystem or datastore)
    last,        \* observation of the last operation on the instance
    fin,         \* input of the module-level function under study
    fout         \* its result

vars == <<params, env, supported, obj, raised, ncalls, reads, last, fin, fout>>

None == "None"
NoLast == [op |-> "none"]

(***************************************************************************)
(* Strings as character sequences.                                         *)
(***************************************************************************)
s_empty == << >>
s_ecfp == <<"e","c","f","p">>
s_ecf == <<"e","c","f">>
s_graphconv == <<"g","r","a","p","h","c","o","n","v">>
s_molvae == <<"m","o","l","v","a","e">>
s_descriptors == <<"d","e","s","c","r","i","p","t","o","r","s">>
s_descriptor == <<"d","e","s","c","r","i","p","t","o","r">>
s_desc == <<"d","e","s","c">>
s_s == <<"s">>
s_computed_descriptors ==
    <<"c","o","m","p","u","t","e","d","_","d","e","s","c","r","i","p","t","o","r","s">>
s_computed == <<"c","o","m","p","u","t","e","d">>
s_rdkit == <<"r","d","k","i","t">>
s_descriptorsx == <<"d","e","s","c","r","i","p","t","o","r","s","x">>

\* The names the docstring of create_featurization lists as valid.
FeaturizerNames == {s_ecfp, s_graphconv, s_molvae, s_computed_descriptors, s_descriptors}

\* The values of params.featurizer the model tries.
FeaturizerInputs ==
    FeaturizerNames \cup {s_empty, s_ecf, s_descriptor, s_desc, s_s, s_computed,
                          s_rdkit, s_descriptorsx}

\* Python's  a in b  for two strings: a occurs in b as a substring.
IsSubstring(a, b) ==
    \E i \in 0..(Len(b) - Len(a)) : SubSeq(b, i + 1, i + Len(a)) = a

StartsWith(s, p) == Len(p) <= Len(s) /\ SubSeq(s, 1, Len(p)) = p
EndsWith(s, p) == Len(p) <= Len(s) /\ SubSeq(s, Len(s) - Len(p) + 1, Len(s)) = p

\* str.rfind(c): the last index (1-based) of character c in s, 0 when absent.
RFind(s, c) ==
    IF \E i \in 1..Len(s) : s[i] = c
    THEN CHOOSE i \in 1..Len(s) : s[i] = c /\ \A j \in (i + 1)..Len(s) : s[j] # c
    ELSE 0

(***************************************************************************)
(* Descriptor keys (paths) the model tries, and os.path on them.           *)
(***************************************************************************)
NoneStr == <<"None">>      \* Python's None where a string is expected
k_dir_t_csv == <<"d","/","t",".","c","s","v">>
k_t_feather == <<"t",".","f","e","a","t","h","e","r">>
k_dotdir_c == <<"a",".","b","/","c">>
k_hidden_csv == <<".","c","s","v">>
k_two_ext == <<"d","/","a",".","b",".","c","s","v">>
k_dir_only == <<"d","/">>

DescriptorKeys ==
    {NoneStr, k_dir_t_csv, k_t_feather, k_dotdir_c, k_hidden_csv, k_two_ext, k_dir_only}

\* os.path.basename(p): everything after the last slash.
basename(p) == SubSeq(p, RFind(p, "/") + 1, Len(p))

\* A variant that cuts at the first dot of the path instead of the last.
splitext_root_first_dot(p) ==
    IF \E i \in 1..Len(p) : p[i] = "."
    THEN SubSeq(p, 1, (CHOOSE i \in 1..Len(p) :
                          p[i] = "." /\ \A j \in 1..(i - 1) : p[j] # ".") - 1)
    ELSE p

\* os.path.splitext(p)[0]: p without its extension. The extension starts at
\* the last dot, provided that dot follows the last slash and is preceded, in
\* the file name, by a character that is not a dot.
splitext_root(p) ==
    LET sepIndex == RFind(p, "/")
        dotIndex == RFind(p, ".")
    IN  IF dotIndex > sepIndex
           /\ \E k \in (sepIndex + 1)..(dotIndex - 1) : p[k] # "."
        THEN SubSeq(p, 1, dotIndex - 1)
        ELSE p

(***************************************************************************)
(* Data frames.                                                            *)
(***************************************************************************)
EmptyDataFrame == [cols |-> {}, rows |-> << >>]     \* pd.DataFrame()

\* DataFrame.empty: true when any axis has length 0.
IsEmpty(df) == df.cols = {} \/ df.rows = << >>

(***************************************************************************)
(* Construction of Featurization objects.                                  *)
(***************************************************************************)
DescriptorTypes == {"mordred_filtered", "moe"}
DescriptorTypeInputs == DescriptorTypes \cup {"bogus"}

\* What reading a descriptor specification table gives: it fails, or it
\* yields the descriptor types listed in the table.
SpecFails == [ok |-> FALSE, types |-> {}]
SpecYields(types) == [ok |-> TRUE, types |-> types]

\* A newly allocated object of the given class, before __init__ has set anything.
Blank(class) ==
    [class |-> class, feat_type |-> NoneStr, featurizer_obj |-> None,
     descriptor_type |-> None, descriptor_key |-> NoneStr, descriptor_base |-> NoneStr,
     desc_id_col |-> None, desc_smiles_col |-> None,
     precomp_descr_table |-> EmptyDataFrame]

NoObj == Blank("NoObj")

\* The result of a constructor or factory call.
Returned(o, sup) == [obj |-> o, raised |-> "none", supported |-> sup, ctor |-> o.class]
Raised(exc, sup, ctor) == [obj |-> NoObj, raised |-> exc, supported |-> sup, ctor |-> ctor]

\* cls.supported_descriptor_types: a class attribute, looked up in the class
\* and then in its base class. ComputedDescriptorFeaturization ("CDF")
\* inherits the list of DescriptorFeaturization ("DF") until
\* load_descriptor_spec sets its own (CDF_set).
NoSupported == [DF |-> {}, CDF |-> {}, CDF_set |-> FALSE]

SupportedTypes(sup, class) ==
    IF class = "ComputedDescriptorFeaturization" /\ sup.CDF_set
    THEN sup.CDF
    ELSE sup.DF

\* cls.load_descriptor_spec(...): sets the class attributes of cls.
SetSupported(sup, class, types) ==
    IF class = "ComputedDescriptorFeaturization"
    THEN [sup EXCEPT !.CDF = types, !.CDF_set = TRUE]
    ELSE [sup EXCEPT !.DF = types]

\* DynamicFeaturization.__init__
DynamicFeaturization_init(p, e, sup) ==
    LET self == [Blank("DynamicFeaturization") EXCEPT !.feat_type = p.featurizer]
    IN  IF self.feat_type = s_ecfp
        THEN Returned([self EXCEPT !.featurizer_obj = "CircularFingerprint"], sup)
        ELSE IF self.feat_type = s_graphconv
        THEN Returned([self EXCEPT !.featurizer_obj = "ConvMolFeaturizer"], sup)
        ELSE IF self.feat_type = s_molvae
        THEN IF e.molvae_imported
             THEN Returned([self EXCEPT !.featurizer_obj = "MoleculeVAEFeaturizer"], sup)
             ELSE Raised("NameError", sup, self.class)
        ELSE Raised("ValueError", sup, self.class)

\* The body of DescriptorFeaturization.__init__, run for an object of `class`.
DescriptorInitBody(class, p, e, sup) ==
    LET self0 == [Blank(class) EXCEPT !.feat_type = p.featurizer]
        needLoad == SupportedTypes(sup, class) = {}
        loaded == IF e.spec_primary.ok THEN e.spec_primary ELSE e.spec_fallback
        sup1 == IF needLoad /\ loaded.ok THEN SetSupported(sup, class, loaded.types) ELSE sup
    IN  IF needLoad /\ ~loaded.ok
        THEN Raised("Exception", sup, class)
        ELSE IF p.descriptor_type \notin SupportedTypes(sup1, class)
        THEN Raised("ValueError", sup1, class)
        ELSE Returned(
               [self0 EXCEPT
                  !.descriptor_type = p.descriptor_type,
                  !.descriptor_key = p.descriptor_key,
                  !.descriptor_base =
                      IF p.descriptor_key # NoneStr
                      THEN splitext_root(basename(p.descriptor_key))
                      ELSE NoneStr,
                  !.desc_id_col = None,
                  !.desc_smiles_col = None,
                  !.precomp_descr_table = EmptyDataFrame],
               sup1)

\* DescriptorFeaturization.__init__
DescriptorFeaturization_init(p, e, sup) ==
    DescriptorInitBody("DescriptorFeaturization", p, e, sup)

\* ComputedDescriptorFeaturization.__init__: the base __init__, then the
\* descriptor type is checked once more.
ComputedDescriptorFeaturization_init(p, e, sup) ==
    LET r == DescriptorInitBody("ComputedDescriptorFeaturization", p, e, sup)
    IN  IF r.raised # "none"
        THEN r
        ELSE IF p.descriptor_type
                  \notin SupportedTypes(r.supported, "ComputedDescriptorFeaturization")
        THEN Raised("ValueError", r.supported, "ComputedDescriptorFeaturization")
        ELSE r

\* A variant of the factory that tests for computed_descriptors before
\* descriptors.
create_featurization_swapped(p, e, sup) ==
    IF p.featurizer \in {s_ecfp, s_graphconv, s_molvae}
    THEN DynamicFeaturization_init(p, e, sup)
    ELSE IF IsSubstring(p.featurizer, s_computed_descriptors)
    THEN ComputedDescriptorFeaturization_init(p, e, sup)
    ELSE IF IsSubstring(p.featurizer, s_descriptors)
    THEN DescriptorFeaturization_init(p, e, sup)
    ELSE Raised("ValueError", sup, "none")

\* create_featurization(params). The tests  in ('descriptors')  and
\* in ('computed_descriptors')  have a parenthesised string, not a tuple, on
\* their right: they are substring tests.
create_featurization(p, e, sup) ==
    IF p.featurizer \in {s_ecfp, s_graphconv, s_molvae}
    THEN DynamicFeaturization_init(p, e, sup)
    ELSE IF IsSubstring(p.featurizer, s_descriptors)
    THEN DescriptorFeaturization_init(p, e, sup)
    ELSE IF IsSubstring(p.featurizer, s_computed_descriptors)
    THEN ComputedDescriptorFeaturization_init(p, e, sup)
    ELSE Raised("ValueError", sup, "none")


(***************************************************************************)
(* Specification SpecCreate: the factory and the constructors, called any  *)
(* number of times in one process (the class attributes persist).          *)
(***************************************************************************)
MkParams(f, dt, key) == [featurizer |-> f, descriptor_type |-> dt, descriptor_key |-> key]
NoParams == MkParams(NoneStr, None, NoneStr)

\* Every featurizer value with one descriptor setting, and every descriptor
\* setting with the two descriptor featurizers.
ParamsInputs ==
    {MkParams(f, "mordred_filtered", k_dir_t_csv) : f \in FeaturizerInputs}
    \cup {MkParams(f, dt, key) : f \in {s_descriptors, s_computed_descriptors},
                                 dt \in DescriptorTypeInputs, key \in DescriptorKeys}

CreateEnvs ==
    [spec_primary : {SpecFails, SpecYields({}), SpecYields({"mordred_filtered"})},
     spec_fallback : {SpecFails, SpecYields(DescriptorTypes)},
     molvae_imported : BOOLEAN]

NoFun == [name |-> "none"]

InitCreate ==
    /\ params = NoParams
    /\ env \in CreateEnvs
    /\ supported = NoSupported
    /\ obj = NoObj
    /\ raised = "none"
    /\ ncalls = 0
    /\ reads = 0
    /\ last = NoLast
    /\ fin = NoFun
    /\ fout = NoFun

\* One call of a factory or constructor: its result replaces the object at hand.
Construct(op, p, r) ==
    /\ params' = p
    /\ obj' = r.obj
    /\ raised' = r.raised
    /\ supported' = r.supported
    /\ last' = [op |-> op, ctor |-> r.ctor]
    /\ UNCHANGED <<env, ncalls, reads, fin, fout>>

CreateFeaturization ==
    \E p \in ParamsInputs :
        Construct("create_featurization", p, create_featurization(p, env, supported))

NewDescriptorFeaturization ==
    \E p \in ParamsInputs :
        Construct("__init__", p, DescriptorFeaturization_init(p, env, supported))

NewComputedDescriptorFeaturization ==
    \E p \in ParamsInputs :
        Construct("__init__", p, ComputedDescriptorFeaturization_init(p, env, supported))

NextCreate ==
    \/ CreateFeaturization
    \/ NewDescriptorFeaturization
    \/ NewComputedDescriptorFeaturization

SpecCreate == InitCreate /\ [][NextCreate]_vars

(***************************************************************************)
(* Claims about create_featurization and the constructors.                 *)
(***************************************************************************)
ExpectedClass(f) ==
    IF f \in {s_ecfp, s_graphconv, s_molvae} THEN "DynamicFeaturization"
    ELSE IF f = s_descriptors THEN "DescriptorFeaturization"
    ELSE "ComputedDescriptorFeaturization"

\* C1: create_featurization, given one of the five featurizer names, enters
\* the constructor of the class the name stands for (DynamicFeaturization for
\* ecfp, graphconv and molvae, DescriptorFeaturization for descriptors,
\* ComputedDescriptorFeaturization for computed_descriptors) and, when that
\* constructor succeeds, returns an object of that class.
C1_FactoryDispatch ==
    (last.op = "create_featurization" /\ params.featurizer \in FeaturizerNames)
        => /\ last.ctor = ExpectedClass(params.featurizer)
           /\ raised = "none" => obj.class = ExpectedClass(params.featurizer)

C1_Witness ==
    /\ last.op = "create_featurization"
    /\ params.featurizer = s_computed_descriptors
    /\ raised = "none"
    /\ obj.class = "ComputedDescriptorFeaturization"

\* C2: create_featurization raises ValueError, without entering any
\* constructor, for every featurizer value that is not one of the five names
\* (the empty string and proper substrings of the names included).
C2_UnknownFeaturizerRaises ==
    (last.op = "create_featurization" /\ params.featurizer \notin FeaturizerNames)
        => /\ raised = "ValueError"
           /\ last.ctor = "none"
           /\ obj = NoObj

\* A state where the factory did reject an unknown featurizer.
C2_Witness ==
    /\ last.op = "create_featurization"
    /\ params.featurizer = s_rdkit
    /\ raised = "ValueError"
    /\ last.ctor = "none"

\* base is key without its directory and without its extension: key is
\* dir \o base \o ext, where dir is empty or ends with the last slash of key,
\* and ext is empty or is the last dot of the file name with what follows it.
\* A dot that only leading dots precede in the file name starts no extension.
IsBaseNameOf(base, key) ==
    \E i \in 0..Len(key) : \E j \in i..Len(key) :
        /\ i = 0 \/ key[i] = "/"
        /\ \A k \in (i + 1)..Len(key) : key[k] # "/"
        /\ base = SubSeq(key, i + 1, j)
        /\ \/ /\ j = Len(key)
              /\ ~ \E d \in (i + 1)..Len(key) :
                     key[d] = "." /\ \E k \in (i + 1)..(d - 1) : key[k] # "."
           \/ /\ j < Len(key)
              /\ key[j + 1] = "."
              /\ \A k \in (j + 2)..Len(key) : key[k] # "."
              /\ \E k \in (i + 1)..j : key[k] # "."

DescriptorClasses == {"DescriptorFeaturization", "ComputedDescriptorFeaturization"}

\* C6: once the descriptor specification is loaded, constructing a
\* DescriptorFeaturization or ComputedDescriptorFeaturization raises
\* ValueError when params.descriptor_type is not a supported type of the
\* class; otherwise the object has that descriptor type, an empty
\* precomp_descr_table, no desc_id_col and desc_smiles_col, and
\* descriptor_base is descriptor_key without directory and extension (None
\* for a None key).
C6_DescriptorInit ==
    (last.op \in {"create_featurization", "__init__"}
        /\ last.ctor \in DescriptorClasses /\ raised # "Exception")
        => IF params.descriptor_type \notin SupportedTypes(supported, last.ctor)
           THEN raised = "ValueError" /\ obj = NoObj
           ELSE /\ raised = "none"
                /\ obj.class = last.ctor
                /\ obj.descriptor_type = params.descriptor_type
                /\ obj.precomp_descr_table = EmptyDataFrame
                /\ IsEmpty(obj.precomp_descr_table)
                /\ obj.desc_id_col = None
                /\ obj.desc_smiles_col = None
                /\ IF params.descriptor_key = NoneStr
                   THEN obj.descriptor_base = NoneStr
                   ELSE IsBaseNameOf(obj.descriptor_base, params.descriptor_key)

\* An object built from a key with a directory and two dots in the file name.
C6_Witness ==
    /\ last.op = "__init__"
    /\ last.ctor = "ComputedDescriptorFeaturization"
    /\ raised = "none"
    /\ params.descriptor_key = k_two_ext
    /\ obj.descriptor_base = <<"a", ".", "b">>

\* The ValueError case of C6.
C6_WitnessRaise ==
    /\ last.op = "__init__"
    /\ last.ctor = "DescriptorFeaturization"
    /\ params.descriptor_type = "bogus"
    /\ raised = "ValueError"

(***************************************************************************)
(* Module-level functions of featurization.py.                             *)
(***************************************************************************)
MaxLen == 3      \* longest list given to a module-level function

SmilesSet == {"C", "CC", "CCO"}

SeqsUpTo(S, n) == UNION {[1..k -> S] : k \in 0..n}

\* Boolean-mask indexing, df[mask] or array[mask]: the elements whose flag is
\* True, in their order.
RECURSIVE BoolIndex(_, _)
BoolIndex(s, mask) ==
    IF s = << >>
    THEN << >>
    ELSE (IF Head(mask) THEN <<Head(s)>> ELSE << >>) \o BoolIndex(Tail(s), Tail(mask))

\* A variant of duplicated that spares the first row of each group
\* (keep='first').
duplicated_keep_first(rows, i) ==
    \E j \in 1..(i - 1) : rows[j].smiles = rows[i].smiles

\* dset_df.duplicated(subset=smiles_col, keep=False) at row i: another row
\* has the same SMILES.
duplicated(rows, i) ==
    \E j \in 1..Len(rows) : j # i /\ rows[j].smiles = rows[i].smiles

\* remove_duplicate_smiles(dset_df, smiles_col)
remove_duplicate_smiles(rows) ==
    LET remove == [i \in 1..Len(rows) |-> duplicated(rows, i)]
    IN  BoolIndex(rows, [i \in 1..Len(rows) |-> ~remove[i]])

\* What the chemistry toolkit does with one input of get_2d_mols / get_3d_mols:
\*   parse: Chem.MolFromSmiles returns a Mol ("mol"), returns None ("none"),
\*          or raises TypeError because the input is not a string;
\*   embed: AllChem.EmbedMolecule succeeds ("ok"), returns a failure code
\*          without raising ("code"), or raises RuntimeError.
ToolkitItems ==
    [parse : {"none", "TypeError"}, embed : {"ok"}]
    \cup [parse : {"mol"}, embed : {"ok", "code", "RuntimeError"}]

NoMol == [src |-> 0, hs |-> FALSE, conf |-> FALSE]       \* Python's None in mols
Mol(i) == [src |-> i, hs |-> FALSE, conf |-> FALSE]       \* the Mol parsed from input i
AddHs(m) == [m EXCEPT !.hs = TRUE]
Embedded(m) == [m EXCEPT !.conf = TRUE]

\* get_2d_mols(smiles_strs): a TypeError of the parser is not handled.
get_2d_mols(items) ==
    LET n == Len(items)
    IN  IF \E i \in 1..n : items[i].parse = "TypeError"
        THEN [raised |-> "TypeError", mols |-> << >>, is_valid |-> << >>]
        ELSE LET mols == [i \in 1..n |-> IF items[i].parse = "mol" THEN Mol(i) ELSE NoMol]
                 is_valid == [i \in 1..n |-> mols[i] # NoMol]
             IN  [raised |-> "none", mols |-> BoolIndex(mols, is_valid),
                  is_valid |-> is_valid]

\* A variant of get_3d_mols that keeps a molecule whose embedding raised.
get_3d_mols_keep_failed(items) ==
    LET n == Len(items)
        mols == [i \in 1..n |-> IF items[i].parse = "mol" THEN AddHs(Mol(i)) ELSE NoMol]
        is_valid == [i \in 1..n |-> mols[i] # NoMol]
    IN  [raised |-> "none", mols |-> BoolIndex(mols, is_valid), is_valid |-> is_valid]

\* get_3d_mols(smiles_strs)
get_3d_mols(items) ==
    LET n == Len(items)
        \* lines 163-169: parse, a TypeError leaves None
        mols0 == [i \in 1..n |-> IF items[i].parse = "mol" THEN Mol(i) ELSE NoMol]
        \* line 172
        mols1 == [i \in 1..n |-> IF mols0[i] # NoMol THEN AddHs(mols0[i]) ELSE NoMol]
        \* lines 174-180: embed in place, RuntimeError gives the molecule up
        mols2 == [i \in 1..n |->
                    IF mols1[i] = NoMol THEN NoMol
                    ELSE IF items[i].embed = "RuntimeError" THEN NoMol
                    ELSE IF items[i].embed = "ok" THEN Embedded(mols1[i])
                    ELSE mols1[i]]
        is_valid == [i \in 1..n |-> mols2[i] # NoMol]
    IN  [raised |-> "none", mols |-> BoolIndex(mols2, is_valid), is_valid |-> is_valid]

(***************************************************************************)
(* compare_models.py: get_collection_datasets.                             *)
(*                                                                         *)
(* Dataset keys and bucket names are strings that the function only        *)
(* compares; a string is modelled by its rank in the order of strings.     *)
(***************************************************************************)
MaxRank == 2            \* number of distinct dataset keys, and of buckets
KeyRanks == 1..MaxRank        \* dataset_key values
BucketRanks == 1..MaxRank     \* bucket values

\* Python's order on (dataset_key, bucket) tuples.
TupleLess(p, q) == p[1] < q[1] \/ (p[1] = q[1] /\ p[2] < q[2])

\* list.sort on a list: insertion of x into an ascending list.
RECURSIVE Insert(_, _)
Insert(x, s) ==
    IF s = << >> THEN <<x>>
    ELSE IF TupleLess(Head(s), x) THEN <<Head(s)>> \o Insert(x, Tail(s))
    ELSE <<x>> \o s

RECURSIVE SortedList(_)
SortedList(s) == IF s = << >> THEN << >> ELSE Insert(Head(s), SortedList(Tail(s)))

\* sorted(a_set): the elements of the set in ascending order.
RECURSIVE sorted(_)
sorted(S) ==
    IF S = {}
    THEN << >>
    ELSE LET m == CHOOSE x \in S : \A y \in S : x = y \/ TupleLess(x, y)
         IN  <<m>> \o sorted(S \ {m})

\* A model's metadata dictionary, as far as get_collection_datasets reads it:
\* ModelMetadata.TrainingDataset with dataset_key and bucket, or without them.
ModelDicts ==
    [has_dataset : {TRUE}, dataset_key : KeyRanks, bucket : BucketRanks]
    \cup {[has_dataset |-> FALSE, dataset_key |-> 0, bucket |-> 0]}

\* A variant that collects the pairs in a list instead of a set.
get_collection_datasets_list(models) ==
    IF \E i \in 1..Len(models) : ~models[i].has_dataset
    THEN [raised |-> "KeyError", value |-> << >>]
    ELSE [raised |-> "none",
          value |-> SortedList([i \in 1..Len(models) |->
                                  <<models[i].dataset_key, models[i].bucket>>])]

\* get_collection_datasets(collection_name), given the models that
\* trkr.get_metadata yields for the collection.
get_collection_datasets(models) ==
    IF \E i \in 1..Len(models) : ~models[i].has_dataset
    THEN [raised |-> "KeyError", value |-> << >>]
    ELSE LET dataset_set ==
                 {<<models[i].dataset_key, models[i].bucket>> : i \in 1..Len(models)}
         IN  [raised |-> "none", value |-> sorted(dataset_set)]

(***************************************************************************)
(* Specification SpecFun: one call of a module-level function on an input  *)
(* drawn from a bounded set.                                               *)
(***************************************************************************)
\* A dataset table whose rows carry their position as compound id.
DatasetOf(smiles) == [i \in 1..Len(smiles) |-> [id |-> i, smiles |-> smiles[i]]]

FunInputs ==
    {[name |-> "remove_duplicate_smiles", arg |-> DatasetOf(s)] :
        s \in SeqsUpTo(SmilesSet, MaxLen)}
    \cup {[name |-> f, arg |-> items] :
            f \in {"get_2d_mols", "get_3d_mols"}, items \in SeqsUpTo(ToolkitItems, MaxLen)}
    \cup {[name |-> "get_collection_datasets", arg |-> models] :
            models \in SeqsUpTo(ModelDicts, MaxLen)}

InitFun ==
    /\ params = NoParams
    /\ env = [spec_primary |-> SpecFails, spec_fallback |-> SpecFails,
              molvae_imported |-> FALSE]
    /\ supported = NoSupported
    /\ obj = NoObj
    /\ raised = "none"
    /\ ncalls = 0
    /\ reads = 0
    /\ last = NoLast
    /\ fin \in FunInputs
    /\ fout = NoFun

Call(name, result) ==
    /\ fin.name = name
    /\ fout = NoFun
    /\ fout' = [name |-> name, res |-> result]
    /\ UNCHANGED <<params, env, supported, obj, raised, ncalls, reads, last, fin>>

RemoveDuplicateSmiles == Call("remove_duplicate_smiles", remove_duplicate_smiles(fin.arg))
Get2dMols == Call("get_2d_mols", get_2d_mols(fin.arg))
Get3dMols == Call("get_3d_mols", get_3d_mols(fin.arg))
GetCollectionDatasets == Call("get_collection_datasets", get_collection_datasets(fin.arg))

NextFun ==
    \/ RemoveDuplicateSmiles
    \/ Get2dMols
    \/ Get3dMols
    \/ GetCollectionDatasets

SpecFun == InitFun /\ [][NextFun]_vars

(***************************************************************************)
(* Claims about the module-level functions of featurization.py.            *)
(***************************************************************************)
Occurrences(rows, s) == Cardinality({j \in 1..Len(rows) : rows[j].smiles = s})

\* C3: remove_duplicate_smiles returns exactly the rows whose SMILES occurs
\* once in the dataset, in their original order; no row of a SMILES that
\* occurs more than once is kept, and no SMILES occurs twice in the result.
C3_RemoveDuplicateSmiles ==
    fout.name = "remove_duplicate_smiles"
        => LET rows == fin.arg
               out == fout.res
           IN  /\ \A i \in 1..Len(rows) :
                     (Occurrences(rows, rows[i].smiles) = 1)
                        <=> (\E k \in 1..Len(out) : out[k] = rows[i])
               /\ \A k \in 1..Len(out) : \E i \in 1..Len(rows) : out[k] = rows[i]
               /\ \A k, l \in 1..Len(out) : k < l => out[k].id < out[l].id
               /\ \A k, l \in 1..Len(out) : k # l => out[k].smiles # out[l].smiles

\* A dataset with a duplicated SMILES between two rows that are kept.
C3_Witness ==
    /\ fout.name = "remove_duplicate_smiles"
    /\ Len(fin.arg) = 3
    /\ fin.arg[1].smiles = fin.arg[3].smiles
    /\ fin.arg[2].smiles # fin.arg[1].smiles
    /\ Len(fout.res) = 1

TrueCount(mask) == Cardinality({i \in 1..Len(mask) : mask[i]})

\* The position of the k-th True flag of mask.
NthTrue(mask, k) ==
    CHOOSE i \in 1..Len(mask) :
        mask[i] /\ Cardinality({j \in 1..i : mask[j]}) = k

AllStrings(items) == \A i \in 1..Len(items) : items[i].parse # "TypeError"

\* C4: for a list of SMILES strings, get_2d_mols and get_3d_mols return one
\* is_valid flag per input in input order, as many molecules as True flags,
\* the k-th molecule coming from the k-th input flagged True; get_3d_mols
\* flags False and drops an input that fails parsing or whose embedding
\* raises, and still returns the molecules of the other inputs.
C4_MolsAndFlags ==
    (fout.name \in {"get_2d_mols", "get_3d_mols"} /\ AllStrings(fin.arg))
        => LET items == fin.arg
               r == fout.res
           IN  /\ r.raised = "none"
               /\ Len(r.is_valid) = Len(items)
               /\ Len(r.mols) = TrueCount(r.is_valid)
               /\ \A k \in 1..Len(r.mols) : r.mols[k].src = NthTrue(r.is_valid, k)
               /\ \A i \in 1..Len(items) :
                     r.is_valid[i] <=>
                        /\ items[i].parse = "mol"
                        /\ fout.name = "get_3d_mols" => items[i].embed # "RuntimeError"

\* get_3d_mols on three strings: the first fails to embed with RuntimeError,
\* the second does not parse, the third is returned.
C4_Witness ==
    /\ fout.name = "get_3d_mols"
    /\ Len(fin.arg) = 3
    /\ fin.arg[1] = [parse |-> "mol", embed |-> "RuntimeError"]
    /\ fin.arg[2].parse = "none"
    /\ fout.res.is_valid = <<FALSE, FALSE, TRUE>>
    /\ Len(fout.res.mols) = 1
    /\ fout.res.mols[1].src = 3

MaxRows == 2     \* most rows of a dataset given to featurize_data
MaxWork == 4     \* most rows one instance is given over all its calls

NaN == "NaN"
id_col == "compound_id"            \* params.id_col
smiles_col == "rdkit_smiles"       \* params.smiles_col
DescrCols == {"d1", "d2"}          \* cls.desc_type_cols[descriptor_type]

\* SMILES of the datasets to featurize: "C" is in the stored descriptor
\* tables, "CC" is not, "X" is not and is rejected by the toolkit.
FeatSmiles == {"C", "CC", "X"}
ValidSmiles(s) == s # "X"

Row(i, s, v1, v2) == [id |-> i, smiles |-> s, d1 |-> v1, d2 |-> v2]

\* The descriptor table stored under params.descriptor_key, in its variants:
\* complete (two compounds with the same SMILES), without rows, without a
\* SMILES column, without one of the descriptor columns.
StoredTables ==
    { [cols |-> {id_col, smiles_col, "d1", "d2"},
       rows |-> <<Row(1, "C", "pre1", "pre1"), Row(2, "C", "pre2", "pre2")>>],
      [cols |-> {id_col, smiles_col, "d1", "d2"}, rows |-> << >>],
      [cols |-> {id_col, "d1", "d2"},
       rows |-> <<Row(1, NaN, "pre1", "pre1")>>],
      [cols |-> {id_col, smiles_col, "d1"},
       rows |-> <<Row(1, "C", "pre1", NaN)>>] }

\* The datastore metadata of the table: it names the ID and SMILES columns,
\* or it does not.
TableMetadata ==
    { [id_col |-> None, smiles_col |-> None],
      [id_col |-> id_col, smiles_col |-> smiles_col] }

\* What the collaborators answer for one instance:
\*   ds_client     dsf.config_client() gives a client
\*   local_exists  os.path.exists(local_path)
\*   stored        the table under descriptor_key (datastore and file alike)
\*   metadata      the key-value metadata of the table in the datastore
\*   file_type     desc_metadata['distribution']['dataType']
InstanceEnvs ==
    [ds_client : BOOLEAN, local_exists : BOOLEAN, stored : StoredTables,
     metadata : TableMetadata, file_type : {"csv"}, feather_supported : {TRUE}]

\* The first of the candidate column names that the table has, else None.
FirstPresent(choices, cols) ==
    IF \E k \in 1..Len(choices) : choices[k] \in cols
    THEN choices[CHOOSE k \in 1..Len(choices) :
                     choices[k] \in cols /\ \A j \in 1..(k - 1) : choices[j] \notin cols]
    ELSE None

LoadResult(self, exc, n) == [obj |-> self, raised |-> exc, reads |-> n]

\* Lines 1061-1077 of load_descriptor_table: default ID and SMILES columns.
DefaultColumns(self) ==
    LET cols == self.precomp_descr_table.cols
        self1 == IF self.desc_id_col = None
                 THEN [self EXCEPT !.desc_id_col =
                          FirstPresent(<<id_col, "compound_id">>, cols)]
                 ELSE self
    IN  IF self1.desc_smiles_col = None
        THEN [self1 EXCEPT !.desc_smiles_col =
                 FirstPresent(<<smiles_col, "rdkit_smiles", "base_rdkit_smiles",
                                "smiles", "SMILES">>, cols)]
        ELSE self1

\* Lines 1046-1059 of load_descriptor_table: the read from the filesystem,
\* taken when the table at hand is empty. n counts the reads done so far.
LoadFromFilesystem(self, e, file_type, n) ==
    LET local_path == self.descriptor_key
    IN  IF ~IsEmpty(self.precomp_descr_table)
        THEN LoadResult(DefaultColumns(self), "none", n)
        ELSE IF local_path = NoneStr
        THEN LoadResult(self, "AttributeError", n)
        ELSE IF EndsWith(local_path, <<".","c","s","v">>)
                \/ (file_type # "" /\ file_type = "csv")
        THEN IF e.local_exists
             THEN LoadResult(DefaultColumns([self EXCEPT !.precomp_descr_table = e.stored]),
                             "none", n + 1)
             ELSE LoadResult(self, "FileNotFoundError", n)
        ELSE IF EndsWith(local_path, <<".","f","e","a","t","h","e","r">>)
                \/ (file_type # "" /\ file_type = "feather")
        THEN IF ~e.feather_supported
             THEN LoadResult(self, "Exception", n)
             ELSE IF e.local_exists
             THEN LoadResult(DefaultColumns([self EXCEPT !.precomp_descr_table = e.stored]),
                             "none", n + 1)
             ELSE LoadResult(self, "FileNotFoundError", n)
        ELSE LoadResult(self, "ValueError", n)

\* DescriptorFeaturization.load_descriptor_table(params)
load_descriptor_table(self, e) ==
    IF e.ds_client
    THEN \* lines 1022-1044
         IF self.descriptor_key = NoneStr
         THEN LoadResult(self, "Exception", 0)
         ELSE LET self1 ==
                      [self EXCEPT
                         !.desc_id_col = IF e.metadata.id_col # None
                                         THEN e.metadata.id_col ELSE @,
                         !.desc_smiles_col = IF e.metadata.smiles_col # None
                                             THEN e.metadata.smiles_col ELSE @]
                  fromDatastore == IsEmpty(self1.precomp_descr_table) /\ ~e.local_exists
                  self2 == IF fromDatastore
                           THEN [self1 EXCEPT !.precomp_descr_table = e.stored]
                           ELSE self1
              IN  LoadFromFilesystem(self2, e, e.file_type, IF fromDatastore THEN 1 ELSE 0)
    ELSE LoadFromFilesystem(self, e, "", 0)

(***************************************************************************)
(* featurize_data of the three concrete classes.                           *)
(***************************************************************************)
\* What a featurize_data call did: the object afterwards, the exception it
\* raised, the table reads it made, the tuple it returned, the table it gave
\* to save_featurized_data, whether and on which rows it invoked
\* compute_descriptors, whether it called load_descriptor_table and the table
\* that call left on the object.
FeatResult(self, exc, n, ret, saved, invoked, computed, loaded, table_loaded) ==
    [obj |-> self, raised |-> exc, reads |-> n, ret |-> ret, saved |-> saved,
     compute_invoked |-> invoked, computed |-> computed,
     loaded |-> loaded, table_loaded |-> table_loaded]

FeatRaised(self, exc, n, invoked, computed, loaded, table_loaded) ==
    FeatResult(self, exc, n, << >>, << >>, invoked, computed, loaded, table_loaded)

\* The components of the returned tuple, built from the featurized rows.
Features(rows) == [i \in 1..Len(rows) |-> <<rows[i].d1, rows[i].d2>>]
Ids(rows) == [i \in 1..Len(rows) |-> rows[i].id]
\* The response values (or zeros) of the rows: one entry per row.
Vals(rows) == [i \in 1..Len(rows) |-> <<"response", rows[i].id>>]
\* get_dataset_attributes: SMILES indexed by compound id.
Attr(rows) == [i \in 1..Len(rows) |-> [id |-> rows[i].id, smiles |-> rows[i].smiles]]

RECURSIVE Concat(_)
Concat(ss) == IF ss = << >> THEN << >> ELSE Head(ss) \o Concat(Tail(ss))

\* attr.loc[ids]: the attribute rows of the given ids, in the order of ids.
AttrLoc(attr, ids) ==
    Concat([k \in 1..Len(ids) |-> SelectSeq(attr, LAMBDA a : a.id = ids[k])])

\* DynamicFeaturization.featurize_data: featurize_smiles_df featurizes the
\* rows whose SMILES the toolkit accepts.
DynamicFeaturizeData(self, dset) ==
    LET is_valid == [i \in 1..Len(dset) |-> ValidSmiles(dset[i].smiles)]
        valid == BoolIndex(dset, is_valid)
        features == [i \in 1..Len(valid) |-> <<"fp", valid[i].smiles>>]
        w == [i \in 1..Len(valid) |-> 1]
    IN  FeatResult(self, "none", 0,
                   <<features, Ids(valid), Vals(valid), Attr(valid), w>>,
                   << >>, FALSE, << >>, FALSE, EmptyDataFrame)

\* left.merge(right, how='inner') on a key: for every left row in order, the
\* right rows with the same key in order; the left row keeps its columns and
\* gains the descriptor columns of the right row.
MergeOnId(left, right) ==
    Concat([i \in 1..Len(left) |->
              LET m == SelectSeq(right, LAMBDA r : r.id = left[i].id)
              IN  [k \in 1..Len(m) |->
                     Row(left[i].id,
                         IF left[i].smiles # NaN THEN left[i].smiles ELSE m[k].smiles,
                         m[k].d1, m[k].d2)]])

MergeOnSmiles(left, right) ==
    Concat([i \in 1..Len(left) |->
              LET m == SelectSeq(right, LAMBDA r : r.smiles = left[i].smiles)
              IN  [k \in 1..Len(m) |-> Row(left[i].id, left[i].smiles, m[k].d1, m[k].d2)]])

\* DescriptorFeaturization.featurize_data
DescriptorFeaturizeData(self, e, dset) ==
    LET L == load_descriptor_table(self, e)
        self1 == L.obj
        table == self1.precomp_descr_table
    IN  IF L.raised # "none"
        THEN FeatRaised(self1, L.raised, L.reads, FALSE, << >>, TRUE, EmptyDataFrame)
        ELSE IF self1.desc_id_col = None
        THEN FeatRaised(self1, "Exception", L.reads, FALSE, << >>, TRUE, table)
        ELSE IF self1.desc_id_col \notin table.cols
        THEN FeatRaised(self1, "KeyError", L.reads, FALSE, << >>, TRUE, table)
        ELSE LET \* the dataset's SMILES column is merged in unless the table has one
                 left == [i \in 1..Len(dset) |->
                            [dset[i] EXCEPT !.smiles =
                                IF smiles_col \in table.cols THEN NaN ELSE @]]
                 merged_dset_df == MergeOnId(left, table.rows)
             IN  IF ~(DescrCols \subseteq table.cols)
                 THEN \* get_user_specified_features, after the table is saved
                      FeatResult(self1, "KeyError", L.reads, << >>, merged_dset_df,
                                 FALSE, << >>, TRUE, table)
                 ELSE FeatResult(self1, "none", L.reads,
                                 <<Features(merged_dset_df), Ids(merged_dset_df),
                                   Vals(merged_dset_df),
                                   AttrLoc(Attr(dset), Ids(merged_dset_df)), None>>,
                                 merged_dset_df, FALSE, << >>, TRUE, table)

\* compute_descriptors(smiles_df, params) for a Mordred descriptor type: the
\* validity flags of the rows and the descriptor table of the valid rows,
\* with the ID and SMILES columns named as in the precomputed table.
compute_descriptors(self, smiles_df) ==
    LET is_valid == [i \in 1..Len(smiles_df) |-> ValidSmiles(smiles_df[i].smiles)]
        valid == BoolIndex(smiles_df, is_valid)
    IN  [is_valid |-> is_valid,
         desc_df |-> [cols |-> {self.desc_id_col, self.desc_smiles_col} \cup DescrCols,
                      rows |-> [i \in 1..Len(valid) |->
                                  Row(valid[i].id, valid[i].smiles, "calc", "calc")]]]

\* pd.concat([a, b], ignore_index=True): the rows of a, then those of b, over
\* the union of the columns.
ConcatFrames(a, b) == [cols |-> a.cols \cup b.cols, rows |-> a.rows \o b.rows]

\* df.drop_duplicates(subset=[smiles_col]): the first row of each SMILES.
drop_duplicates(rows) ==
    BoolIndex(rows, [i \in 1..Len(rows) |->
                       ~ \E j \in 1..(i - 1) : rows[j].smiles = rows[i].smiles])

SmilesOf(rows) == {rows[i].smiles : i \in 1..Len(rows)}

\* df[df[smiles_col].isin(values)]
IsIn(rows, values) == SelectSeq(rows, LAMBDA r : r.smiles \in values)

\* df.sample(n=len(df)): the rows in the order given by the ranks pi, a
\* permutation of the row positions.
Shuffled(rows, pi) ==
    LET n == Len(rows)
        order == CHOOSE f \in [1..n -> 1..n] :
                    /\ \A a, b \in 1..n : a # b => f[a] # f[b]
                    /\ \A a, b \in 1..n : a < b => pi[f[a]] < pi[f[b]]
    IN  [k \in 1..n |-> rows[order[k]]]

\* A variant that computes descriptors for every SMILES of the dataset.
CalcSmiles_all(use_precomputed, dset, table) == SmilesOf(dset)

\* Lines 1355-1361: the SMILES that need their descriptors computed.
CalcSmiles(use_precomputed, dset, table) ==
    IF use_precomputed
    THEN SmilesOf(dset) \ SmilesOf(table.rows)
    ELSE SmilesOf(dset)

(***************************************************************************)
(* ComputedDescriptorFeaturization.featurize_data, in the four stages of   *)
(* its body; each stage is given the values the stage before it computed.  *)
(***************************************************************************)
\* Lines 1317-1318: a precomputed table is loaded when a descriptor key is
\* given and the instance holds no table.
TryLoad(self) == self.descriptor_key # NoneStr /\ IsEmpty(self.precomp_descr_table)

LoadStage(self, e) ==
    IF TryLoad(self) THEN load_descriptor_table(self, e) ELSE LoadResult(self, "none", 0)

\* Lines 1319-1343, given the result L of the load: is the table of use, and
\* which columns hold the compound ID and the SMILES.
CheckStage(L, tryLoad) ==
    LET s1 == L.obj
        lacksCol == tryLoad /\ (s1.desc_smiles_col = None \/ s1.desc_id_col = None)
        absent_cols == DescrCols \ s1.precomp_descr_table.cols
        use_precomputed == tryLoad /\ ~lacksCol /\ absent_cols = {}
        s2 == IF lacksCol
              THEN [s1 EXCEPT !.precomp_descr_table = EmptyDataFrame]
              ELSE IF use_precomputed
              THEN [s1 EXCEPT !.precomp_descr_table.cols =
                       {s1.desc_id_col, s1.desc_smiles_col} \cup DescrCols]
              ELSE s1
    IN  [obj |-> [s2 EXCEPT !.desc_id_col = IF @ = None THEN id_col ELSE @,
                            !.desc_smiles_col = IF @ = None THEN smiles_col ELSE @],
         use_precomputed |-> use_precomputed,
         \* line 1334 selects the ID and SMILES columns from the table
         keyError |-> use_precomputed
                      /\ ~({s1.desc_id_col, s1.desc_smiles_col}
                              \subseteq s1.precomp_descr_table.cols),
         table_loaded |-> IF tryLoad THEN s1.precomp_descr_table ELSE EmptyDataFrame]

\* Lines 1355-1380, given the result A of the check: compute the descriptors
\* of the rows that need them and add them to the table of the instance.
ComputeStage(A, dset) ==
    LET calc_smiles == CalcSmiles(A.use_precomputed, dset, A.obj.precomp_descr_table)
        calc_smiles_df == IsIn(dset, calc_smiles)
        C == compute_descriptors(A.obj, calc_smiles_df)
        valid == BoolIndex(calc_smiles_df, C.is_valid)
        has_calc == calc_smiles # {}
    IN  [has_calc |-> has_calc,
         precomp_smiles |-> IF A.use_precomputed THEN SmilesOf(dset) \ calc_smiles ELSE {},
         calc_smiles_df |-> calc_smiles_df,
         calc_merged_df |-> [i \in 1..Len(valid) |->
                               Row(valid[i].id, valid[i].smiles,
                                   C.desc_df.rows[i].d1, C.desc_df.rows[i].d2)],
         obj |-> IF has_calc
                 THEN [A.obj EXCEPT !.precomp_descr_table =
                          IF IsEmpty(@) THEN C.desc_df ELSE ConcatFrames(@, C.desc_df)]
                 ELSE A.obj]

\* Lines 1383-1400, given the result B of the computation: the rows with
\* precomputed descriptors, and the featurized dataset.
MergeStage(B, dset) ==
    LET has_precomp == B.precomp_smiles # {}
        precomp_merged_df ==
            drop_duplicates(MergeOnSmiles(IsIn(dset, B.precomp_smiles),
                                          B.obj.precomp_descr_table.rows))
    IN  [assigned |-> B.has_calc \/ has_precomp,
         merged_dset_df |->
            IF B.has_calc /\ has_precomp THEN B.calc_merged_df \o precomp_merged_df
            ELSE IF B.has_calc THEN B.calc_merged_df
            ELSE precomp_merged_df]

\* Lines 1408-1433, given all of the above: shuffle, save, return; and the
\* exceptions of the stages before. pi is the order the shuffle draws.
ReturnStage(L, tryLoad, A, B, M, pi) ==
    IF L.raised # "none"
    THEN FeatRaised(L.obj, L.raised, L.reads, FALSE, << >>, tryLoad, EmptyDataFrame)
    ELSE IF A.keyError
    THEN FeatRaised(L.obj, "KeyError", L.reads, FALSE, << >>, tryLoad, A.table_loaded)
    ELSE IF ~M.assigned
    THEN \* merged_dset_df was never assigned
         FeatRaised(A.obj, "UnboundLocalError", L.reads, FALSE, << >>, tryLoad,
                    A.table_loaded)
    ELSE LET shuffled == Shuffled(M.merged_dset_df, pi)
         IN  FeatResult(B.obj, "none", L.reads,
                        <<Features(shuffled), Ids(shuffled), Vals(shuffled),
                          Attr(shuffled), None>>,
                        shuffled, B.has_calc,
                        IF B.has_calc THEN B.calc_smiles_df ELSE << >>,
                        tryLoad, A.table_loaded)

(***************************************************************************)
(* Specification Spec: the life of one Featurization instance after its    *)
(* construction: load_descriptor_table and featurize_data calls.           *)
(***************************************************************************)
\* The specification file names the descriptor type of the instance.
SpecLoaded ==
    [spec_primary |-> SpecYields({"mordred_filtered"}), spec_fallback |-> SpecFails,
     molvae_imported |-> TRUE]

InstanceParams ==
    {MkParams(f, "mordred_filtered", key) :
        f \in {s_ecfp, s_descriptors, s_computed_descriptors},
        key \in {NoneStr, k_dir_t_csv}}

\* The collaborators matter only to the descriptor classes with a descriptor
\* key; the datastore metadata is read only through a datastore client.
EnvsFor(p) ==
    IF p.featurizer = s_ecfp \/ p.descriptor_key = NoneStr
    THEN {e \in InstanceEnvs : ~e.ds_client /\ e.local_exists /\ e.metadata.id_col = None
                               /\ e.stored.cols = {id_col, "d1", "d2"}}
    ELSE {e \in InstanceEnvs : e.ds_client \/ e.metadata.id_col = None}

Datasets == {DatasetOf(s) : s \in SeqsUpTo(FeatSmiles, MaxRows)}

Orders(n) == {pi \in [1..n -> 1..n] : \A a, b \in 1..n : a # b => pi[a] # pi[b]}

Init ==
    /\ params \in InstanceParams
    /\ env \in EnvsFor(params)
    /\ LET r == create_featurization(params, SpecLoaded, NoSupported)
       IN  /\ obj = r.obj
           /\ supported = r.supported
           /\ raised = r.raised
    /\ ncalls = 0
    /\ reads = 0
    /\ last = NoLast
    /\ fin = NoFun
    /\ fout = NoFun

\* What a call counts for in the bound MaxWork: the rows of its dataset, and
\* one for a call without rows.
Cost(dset) == IF Len(dset) = 0 THEN 1 ELSE Len(dset)

\* The datasets the instance can still be given.
Affordable == {dset \in Datasets : ncalls + Cost(dset) <= MaxWork}

\* One featurize_data call with result r on dataset dset.
Featurize(dset, r) ==
    /\ ncalls' = ncalls + Cost(dset)
    /\ obj' = r.obj
    /\ raised' = r.raised
    /\ reads' = reads + r.reads
    /\ last' = [op |-> "featurize_data", dset |-> dset, ret |-> r.ret,
                saved |-> r.saved, compute_invoked |-> r.compute_invoked,
                computed |-> r.computed, loaded |-> r.loaded,
                table_loaded |-> r.table_loaded,
                table_before |-> obj.precomp_descr_table]
    /\ UNCHANGED <<params, env, supported, fin, fout>>

DynamicFeaturizeDataCall ==
    /\ obj.class = "DynamicFeaturization"
    /\ \E dset \in Affordable : Featurize(dset, DynamicFeaturizeData(obj, dset))

DescriptorFeaturizeDataCall ==
    /\ obj.class = "DescriptorFeaturization"
    /\ \E dset \in Affordable :
       \E r \in {DescriptorFeaturizeData(obj, env, dset)} : Featurize(dset, r)

ComputedFeaturizeDataCall ==
    /\ obj.class = "ComputedDescriptorFeaturization"
    /\ \E L \in {LoadStage(obj, env)} :
       \E A \in {CheckStage(L, TryLoad(obj))} :
       \E dset \in Affordable :
       \E B \in {ComputeStage(A, dset)} :
       \E M \in {MergeStage(B, dset)} :
       \E pi \in Orders(Len(M.merged_dset_df)) :
       \E r \in {ReturnStage(L, TryLoad(obj), A, B, M, pi)} :
          Featurize(dset, r)

\* A direct call of load_descriptor_table by the client of the instance.
LoadDescriptorTableCall ==
    /\ obj.class \in DescriptorClasses
    /\ ncalls + 1 <= MaxWork
    /\ LET r == load_descriptor_table(obj, env)
       IN  /\ obj' = r.obj
           /\ raised' = r.raised
           /\ reads' = reads + r.reads
           /\ last' = [op |-> "load_descriptor_table",
                       table_before |-> obj.precomp_descr_table]
    /\ ncalls' = ncalls + 1
    /\ UNCHANGED <<params, env, supported, fin, fout>>

Next ==
    \/ DynamicFeaturizeDataCall
    \/ DescriptorFeaturizeDataCall
    \/ ComputedFeaturizeDataCall
    \/ LoadDescriptorTableCall

Spec == Init /\ [][Next]_vars

(***************************************************************************)
(* Claims about featurize_data and the descriptor table.                   *)
(***************************************************************************)
\* C5: a successful featurize_data of a concrete featurization class returns
\* a tuple of exactly four components (features, ids, vals, attr).
C5_FourComponents ==
    (last.op = "featurize_data" /\ raised = "none") => Len(last.ret) = 4

\* A successful featurize_data call of a ComputedDescriptorFeaturization.
C5_Witness ==
    /\ last.op = "featurize_data"
    /\ obj.class = "ComputedDescriptorFeaturization"
    /\ raised = "none"
    /\ Len(last.dset) = 2

\* The table has an ID column, a SMILES column and all descriptor columns.
GoodTable(table) == ({id_col, smiles_col} \cup DescrCols) \subseteq table.cols

\* C7: when ComputedDescriptorFeaturization.featurize_data loads a
\* precomputed table with an ID column, a SMILES column and all descriptor
\* columns, it invokes compute_descriptors on exactly the dataset rows whose
\* SMILES is absent from the table, and not at all when there is no such
\* row; the featurized rows of the other SMILES carry the descriptor values
\* of a table row of their SMILES.
C7_ComputeOnlyAbsent ==
    (last.op = "featurize_data" /\ obj.class = "ComputedDescriptorFeaturization"
        /\ last.loaded /\ GoodTable(last.table_loaded))
        => LET T == last.table_loaded.rows
               absent == SelectSeq(last.dset, LAMBDA r : r.smiles \notin SmilesOf(T))
           IN  /\ last.computed = absent
               /\ last.compute_invoked <=> absent # << >>
               /\ raised = "none" =>
                    /\ \A k \in 1..Len(last.saved) :
                          last.saved[k].smiles \in SmilesOf(T)
                             => \E j \in 1..Len(T) :
                                   /\ T[j].smiles = last.saved[k].smiles
                                   /\ T[j].d1 = last.saved[k].d1
                                   /\ T[j].d2 = last.saved[k].d2
                    /\ \A i \in 1..Len(last.dset) :
                          last.dset[i].smiles \in SmilesOf(T)
                             => \E k \in 1..Len(last.saved) :
                                   last.saved[k].smiles = last.dset[i].smiles

\* The call loaded a table that has "C"; the dataset has "CC" and "C":
\* descriptors are computed for the first row only, the second row takes
\* those of the table.
C7_Witness ==
    /\ last.op = "featurize_data"
    /\ obj.class = "ComputedDescriptorFeaturization"
    /\ last.loaded
    /\ GoodTable(last.table_loaded)
    /\ last.table_loaded.rows # << >>
    /\ raised = "none"
    /\ last.dset = DatasetOf(<<"CC", "C">>)
    /\ last.computed = <<[id |-> 1, smiles |-> "CC"]>>
    /\ \E k \in 1..Len(last.saved) : last.saved[k] = Row(2, "C", "pre1", "pre1")

\* The call loaded a table that has every SMILES of the dataset:
\* compute_descriptors is not invoked.
C7_WitnessAllPrecomputed ==
    /\ last.op = "featurize_data"
    /\ obj.class = "ComputedDescriptorFeaturization"
    /\ last.loaded
    /\ GoodTable(last.table_loaded)
    /\ raised = "none"
    /\ last.dset = DatasetOf(<<"C">>)
    /\ ~last.compute_invoked

\* C8: a SMILES whose descriptors an earlier featurize_data call of the
\* instance computed and added to precomp_descr_table is not given to
\* compute_descriptors again by a later call.
C8_NoRecompute ==
    (last.op = "featurize_data" /\ obj.class = "ComputedDescriptorFeaturization")
        => \A i \in 1..Len(last.computed) :
              ~ \E j \in 1..Len(last.table_before.rows) :
                   /\ last.table_before.rows[j].smiles = last.computed[i].smiles
                   /\ last.table_before.rows[j].d1 = "calc"

\* A second call that computes descriptors while the table holds computed rows.
C8_Witness ==
    /\ last.op = "featurize_data"
    /\ obj.class = "ComputedDescriptorFeaturization"
    /\ last.compute_invoked
    /\ \E j \in 1..Len(last.table_before.rows) : last.table_before.rows[j].d1 = "calc"

\* C9: on a DescriptorFeaturization instance the descriptor table is read
\* from the filesystem or the datastore at most once, and a
\* load_descriptor_table call on an instance that holds a loaded table
\* leaves precomp_descr_table as it was.
C9_LoadedOnce ==
    obj.class = "DescriptorFeaturization"
        => /\ reads <= 1
           /\ (last.op = "load_descriptor_table" /\ last.table_before.cols # {})
                 => obj.precomp_descr_table = last.table_before

\* A second load_descriptor_table call on an instance that holds its table.
C9_Witness ==
    /\ obj.class = "DescriptorFeaturization"
    /\ last.op = "load_descriptor_table"
    /\ last.table_before.rows # << >>
    /\ reads = 1

(***************************************************************************)
(* compare_models.py: the functions that assemble tables from the model    *)
(* tracker's answers.                                                      *)
(*                                                                         *)
(* What trkr.get_full_metadata yields is an input.  The answers to the     *)
(* queries of one call are given as one sequence of events: a query event  *)
(* opens the answer to the next query, the model events after it are the   *)
(* metadata dictionaries the tracker yields for it, in order.              *)
(***************************************************************************)
MaxEvents == 4     \* longest sequence of tracker events of one call

s_metrics == <<"_", "m", "e", "t", "r", "i", "c", "s">>
n_a == <<"a">>
n_a_metrics == <<"a">> \o s_metrics
n_metrics_a == s_metrics \o <<"a">>
CollectionNames == {n_a, n_a_metrics, n_metrics_a}

\* The (dataset_key, bucket) pairs of the training datasets.
DatasetPairs == {<<1, 1>>, <<1, 2>>, <<2, 1>>}

\* An element of collection_names.
CollectionEvent(name) ==
    [kind |-> "collection", name |-> name, has_metrics |-> FALSE, has_uuid |-> FALSE,
     has_key |-> FALSE, has_bucket |-> FALSE, dataset |-> <<0, 0>>]

\* A metadata dictionary, as far as get_model_datasets reads it: whether it
\* has the keys ModelMetrics, model_uuid,
\* ModelMetadata.TrainingDataset.dataset_key and ...bucket, and their values.
ModelEvent(has_metrics, has_uuid, has_key, has_bucket, dataset) ==
    [kind |-> "model", name |-> << >>, has_metrics |-> has_metrics, has_uuid |-> has_uuid,
     has_key |-> has_key, has_bucket |-> has_bucket, dataset |-> dataset]

DatasetModelEvents ==
    {ModelEvent(TRUE, TRUE, TRUE, TRUE, ds) : ds \in DatasetPairs}
    \cup {ModelEvent(FALSE, TRUE, TRUE, TRUE, <<1, 1>>),
          ModelEvent(TRUE, FALSE, TRUE, TRUE, <<1, 1>>),
          ModelEvent(TRUE, TRUE, FALSE, TRUE, <<1, 1>>),
          ModelEvent(TRUE, TRUE, TRUE, FALSE, <<1, 1>>)}

\* The event sequences that start with a query.
EventSeqs(queries, models) ==
    {ev \in SeqsUpTo(queries \cup models, MaxEvents) :
        ev = << >> \/ ev[1].kind # "model"}

\* The elements of the set of numbers P, in ascending order.
RECURSIVE Ascending(_)
Ascending(P) ==
    IF P = {} THEN << >>
    ELSE LET m == CHOOSE x \in P : \A y \in P : x <= y
         IN  <<m>> \o Ascending(P \ {m})

\* The position of the query that model event i answers.
QueryOf(events, i) ==
    CHOOSE q \in 1..i :
        /\ events[q].kind # "model"
        /\ \A j \in (q + 1)..i : events[j].kind = "model"

\* The model events that answer the query at position q, in order; the
\* model_uuid of a model is its position in the event sequence.
RECURSIVE AnswerFrom(_, _)
AnswerFrom(events, j) ==
    IF j > Len(events) \/ events[j].kind # "model"
    THEN << >>
    ELSE <<[uuid |-> j, md |-> events[j]]>> \o AnswerFrom(events, j + 1)

get_full_metadata(events, q) == AnswerFrom(events, q + 1)

\* The positions of the queries, in order.
QueryPositions(events) ==
    LET F[i \in 0..Len(events)] ==
            IF i = 0 THEN << >>
            ELSE IF events[i].kind # "model" THEN Append(F[i - 1], i) ELSE F[i - 1]
    IN  F[Len(events)]

\* result_dict.setdefault(key, []).append(value) on a dictionary kept as the
\* sequence of its items in insertion order.
SetDefaultAppend(dict, key, value) ==
    IF \E k \in 1..Len(dict) : dict[k].key = key
    THEN [k \in 1..Len(dict) |->
            IF dict[k].key = key
            THEN [dict[k] EXCEPT !.val = Append(@, value)]
            ELSE dict[k]]
    ELSE Append(dict, [key |-> key, val |-> <<value>>])

\* A variant of the loop body without the test for 'ModelMetrics'.
ModelDatasetsStep_unchecked(result_dict, m) ==
    IF m.md.has_uuid /\ m.md.has_key /\ m.md.has_bucket
    THEN SetDefaultAppend(result_dict, m.md.dataset, m.uuid)
    ELSE result_dict

\* The body of the loop over the models of get_model_datasets.
ModelDatasetsStep(result_dict, m) ==
    IF ~m.md.has_metrics
    THEN result_dict                         \* continue
    ELSE IF m.md.has_uuid /\ m.md.has_key /\ m.md.has_bucket
         THEN SetDefaultAppend(result_dict, m.md.dataset, m.uuid)
         ELSE result_dict                    \* except KeyError: continue

RECURSIVE ModelDatasetsLoop(_, _)
ModelDatasetsLoop(result_dict, models) ==
    IF models = << >> THEN result_dict
    ELSE ModelDatasetsLoop(ModelDatasetsStep(result_dict, Head(models)), Tail(models))

\* get_model_datasets(collection_names, filter_dict): st holds result_dict
\* and the collections queried so far.
RECURSIVE ModelDatasetsCollections(_, _, _)
ModelDatasetsCollections(events, qs, st) ==
    IF qs = << >> THEN st
    ELSE LET q == Head(qs)
             collection_name == events[q].name
         IN  IF EndsWith(collection_name, s_metrics)
             THEN ModelDatasetsCollections(events, Tail(qs), st)
             ELSE ModelDatasetsCollections(events, Tail(qs),
                     [result_dict |-> ModelDatasetsLoop(st.result_dict,
                                                        get_full_metadata(events, q)),
                      queried |-> Append(st.queried, q)])

get_model_datasets(events) ==
    LET st == ModelDatasetsCollections(events, QueryPositions(events),
                                       [result_dict |-> << >>, queried |-> << >>])
    IN  [raised |-> "none", value |-> st.result_dict, queried |-> st.queried]

(***************************************************************************)
(* compare_models.py: get_training_perf_table.                             *)
(***************************************************************************)
\* Metric values; a larger number is a larger value.
Scores == 0..MaxRank

subsets == <<"train", "valid", "test">>

\* An element of ModelMetrics.TrainingRun: label, subset and the
\* PredictionResults of the subset.
Metrics(label, subset, r2, n) ==
    [label |-> label, subset |-> subset,
     PredictionResults |-> [r2_score |-> r2, roc_auc_score |-> MaxRank - r2,
                            num_compounds |-> n]]

\* The metrics of one label for the three subsets, with v the r2_score of
\* the validation subset; the subsets of another label than 'best' have
\* other numbers of compounds.
RunOf(label, v) ==
    LET extra == IF label = "best" THEN 0 ELSE 1
    IN  <<Metrics(label, "train", MaxRank, 3 + extra), Metrics(label, "valid", v, 1 + extra),
          Metrics(label, "test", 0, 1 + extra)>>

\* The TrainingRun lists of the models: none, the two of a model without
\* validation metrics, the three of the best epoch, these followed by the
\* three of another label, and three without best metrics for 'valid'.
TrainingRuns(v) ==
    [none |-> << >>,
     two |-> <<Metrics("best", "train", MaxRank, 3), Metrics("best", "test", 0, 1)>>,
     best |-> RunOf("best", v),
     best_final |-> RunOf("best", v) \o RunOf("final", (v + 1) % (MaxRank + 1)),
     no_best_valid |-> <<Metrics("best", "train", MaxRank, 3), Metrics("final", "valid", v, 1),
                         Metrics("best", "test", 0, 1)>>]

\* A metadata dictionary, as far as get_training_perf_table reads it.
PerfModel(runs, model_type) == [TrainingRun |-> runs, model_type |-> model_type]

\* The models of the tracker, each named by the kind of its TrainingRun
\* list, its validation score and its model type.
PerfModelIds ==
    {[runs |-> "best", v |-> v, model_type |-> "NN"] : v \in Scores}
    \cup {[runs |-> "best", v |-> 0, model_type |-> t] : t \in {"RF", "xgboost"}}
    \cup {[runs |-> "best_final", v |-> 0, model_type |-> "NN"]}
    \cup {[runs |-> k, v |-> 0, model_type |-> "NN"] : k \in {"none", "two", "no_best_valid"}}
    \cup {[runs |-> "best", v |-> 0, model_type |-> "hybrid"]}

\* The metadata dictionaries the tracker yields for a sequence of its models.
PerfModels(ids) ==
    [i \in 1..Len(ids) |-> PerfModel(TrainingRuns(ids[i].v)[ids[i].runs], ids[i].model_type)]

\* Lines 111-114.
MetricType(pred_type) ==
    IF pred_type = "regression" THEN "r2_score" ELSE "roc_auc_score"

\* subset_metrics: for each subset the PredictionResults of the last entry
\* labelled 'best', if there is one.
SubsetMetrics(metrics_dicts) ==
    [s \in {"train", "valid", "test"} |->
        LET P == {k \in 1..Len(metrics_dicts) :
                     metrics_dicts[k].label = "best" /\ metrics_dicts[k].subset = s}
        IN  IF P = {}
            THEN [present |-> FALSE, PredictionResults |-> Metrics("", s, 0, 0).PredictionResults]
            ELSE [present |-> TRUE,
                  PredictionResults |->
                      metrics_dicts[CHOOSE k \in P : \A l \in P : l <= k].PredictionResults]]

\* The orders of the row positions P in which the values of column col
\* descend (ascend when ascending is TRUE); rows of equal value come in any
\* order.
RECURSIVE Arrangements(_, _, _, _)
Arrangements(P, rows, col, ascending) ==
    IF P = {} THEN {<< >>}
    ELSE UNION {{<<m>> \o t : t \in Arrangements(P \ {m}, rows, col, ascending)} :
                   m \in {x \in P : \A y \in P :
                             IF ascending THEN rows[x][col] <= rows[y][col]
                                          ELSE rows[x][col] >= rows[y][col]}}

\* DataFrame.sort_values(col, ascending=True) with the default, unstable
\* sort: the orders it can leave the rows in.
sort_values_ascending(rows, col) ==
    {[k \in 1..Len(rows) |-> rows[f[k]]] :
        f \in Arrangements(1..Len(rows), rows, col, TRUE)}

\* DataFrame.sort_values(col, ascending=False) with the default, unstable
\* sort: the orders it can leave the rows in.
sort_values_descending(rows, col) ==
    {[k \in 1..Len(rows) |-> rows[f[k]]] :
        f \in Arrangements(1..Len(rows), rows, col, FALSE)}

NoTable == [raised |-> "none", is_none |-> TRUE, rows |-> << >>]
TableRaised(exc) == [raised |-> exc, is_none |-> FALSE, rows |-> << >>]

\* The loop over the models of get_training_perf_table: st holds the rows
\* whose lists are complete (the score lists and model_uuid_list), the
\* length of the lists of model parameters, and the exception raised.
RECURSIVE TrainingPerfLoop(_, _, _, _)
TrainingPerfLoop(models, i, metric_type, st) ==
    IF i > Len(models) \/ st.raised # "none" THEN st
    ELSE LET metrics_dicts == models[i].TrainingRun
             subset_metrics == SubsetMetrics(metrics_dicts)
             known == models[i].model_type \in {"NN", "RF", "xgboost"}
         IN  IF Len(metrics_dicts) < 3
             THEN TrainingPerfLoop(models, i + 1, metric_type, st)
             ELSE IF \E s \in {"train", "valid", "test"} : ~subset_metrics[s].present
             THEN [st EXCEPT !.raised = "KeyError"]
             ELSE TrainingPerfLoop(models, i + 1, metric_type,
                     [st EXCEPT
                        !.rows = Append(@,
                            [model_uuid |-> i, model_type |-> models[i].model_type,
                             train |-> subset_metrics["train"].PredictionResults[metric_type],
                             valid |-> subset_metrics["valid"].PredictionResults[metric_type],
                             test |-> subset_metrics["test"].PredictionResults[metric_type]]),
                        !.nparams = IF known THEN @ + 1 ELSE @])

\* get_training_perf_table(dataset_key, bucket, collection_name, pred_type),
\* given the models trkr.get_full_metadata yields: the results the call can
\* have.
get_training_perf_table(models, pred_type) ==
    IF models = << >>
    THEN {NoTable}
    ELSE LET metric_type == MetricType(pred_type)
             st == TrainingPerfLoop(models, 1, metric_type,
                                    [rows |-> << >>, nparams |-> 0, raised |-> "none"])
         IN  IF st.raised # "none" THEN {TableRaised(st.raised)}
             ELSE IF st.nparams # Len(st.rows) THEN {TableRaised("ValueError")}
             ELSE {[raised |-> "none", is_none |-> FALSE, rows |-> sorted_rows] :
                     sorted_rows \in sort_values_descending(st.rows, "valid")}

(***************************************************************************)
(* compare_models.py: get_best_perf_table and get_best_models_info.        *)
(***************************************************************************)
\* The query for the best models of dataset dataset_key in one collection;
\* error tells whether trkr.get_full_metadata raises.
BestQueryEvent(dataset_key, error) ==
    [kind |-> IF error THEN "query_error" ELSE "query", dataset_key |-> dataset_key,
     runs |-> "none", v |-> 0]

\* A model the tracker yields for such a query, named by the kind of its
\* TrainingRun list and its validation score.
BestModelEvent(runs, v) == [kind |-> "model", dataset_key |-> 0, runs |-> runs, v |-> v]

\* The dataset keys of dset_keys.
BestDatasetKeys == {1, 2}

BestQueryEvents ==
    {BestQueryEvent(k, FALSE) : k \in BestDatasetKeys} \cup {BestQueryEvent(1, TRUE)}

BestModelEvents ==
    {BestModelEvent("best", v) : v \in Scores}
    \cup {BestModelEvent("two", 0)}

NoModelInfo == [is_none |-> TRUE, index |-> 0, model_uuid |-> 0, dataset_key |-> 0,
                r2_score_valid |-> 0, roc_auc_score_valid |-> 0]

\* get_best_perf_table(col_name, metric_type, metadata_dict=model): the
\* model_info of a model trained on dataset_key, as the one-row table that
\* DataFrame.from_records makes of it, or None.  Only the validation columns
\* of the two metric types are kept.
get_best_perf_table(model_uuid, dataset_key, TrainingRun, metric_type) ==
    IF Len(TrainingRun) < 3
    THEN NoModelInfo
    ELSE LET metrics_dicts ==
                 IF Len(TrainingRun) > 3
                 THEN SelectSeq(TrainingRun, LAMBDA m : m.label = "best")
                 ELSE TrainingRun
             P == {k \in 1..Len(metrics_dicts) : metrics_dicts[k].subset = "valid"}
             last_valid == metrics_dicts[CHOOSE k \in P : \A l \in P : l <= k]
         IN  [is_none |-> FALSE, index |-> 0, model_uuid |-> model_uuid,
              dataset_key |-> dataset_key,
              r2_score_valid |->
                  IF metric_type = "r2_score" THEN last_valid.PredictionResults.r2_score
                  ELSE NaN,
              roc_auc_score_valid |->
                  IF metric_type = "roc_auc_score"
                  THEN last_valid.PredictionResults.roc_auc_score
                  ELSE NaN]

\* The loop over the models of one query: each model's table is appended
\* until get_best_perf_table returns None, of which from_records raises; the
\* handler at line 374 then goes on with the next dataset.
RECURSIVE BestModelsLoop(_, _, _, _)
BestModelsLoop(models, dataset_key, metric_type, top_models_info) ==
    IF models = << >> THEN top_models_info
    ELSE LET m == Head(models)
             res_df == get_best_perf_table(m.uuid, dataset_key,
                                           TrainingRuns(m.md.v)[m.md.runs], metric_type)
         IN  IF res_df.is_none
             THEN top_models_info
             ELSE BestModelsLoop(Tail(models), dataset_key, metric_type,
                                 Append(top_models_info, res_df))

\* The loops over col_names and dset_keys, one query each.
RECURSIVE BestModelsQueries(_, _, _, _)
BestModelsQueries(events, qs, metric_type, top_models_info) ==
    IF qs = << >> THEN top_models_info
    ELSE LET q == Head(qs)
         IN  IF events[q].kind = "query_error"
             THEN BestModelsQueries(events, Tail(qs), metric_type, top_models_info)
             ELSE BestModelsQueries(events, Tail(qs), metric_type,
                     BestModelsLoop(get_full_metadata(events, q), events[q].dataset_key,
                                    metric_type, top_models_info))

\* pd.concat(frames) of one-row tables: every row keeps its index label 0.
concat_keep_index(frames) == frames

\* pd.concat(frames, ignore_index=True) of one-row tables: the rows are
\* labelled 0, 1, ... in order.
concat_ignore_index(frames) == [k \in 1..Len(frames) |-> [frames[k] EXCEPT !.index = k - 1]]

\* df.groupby('dataset_key')[col].idxmax() (idxmin when max is FALSE): for
\* each dataset_key in ascending order, the index label of the first row of
\* the group with the largest (smallest) value.
GroupIdx(df, col, max) ==
    LET keys == {df[k].dataset_key : k \in 1..Len(df)}
        Best(key) ==
            LET G == {k \in 1..Len(df) : df[k].dataset_key = key}
                B == {k \in G : \A l \in G :
                         IF max THEN df[k][col] >= df[l][col] ELSE df[k][col] <= df[l][col]}
            IN  df[CHOOSE k \in B : \A l \in B : k <= l].index
    IN  [i \in 1..Cardinality(keys) |-> Best(Ascending(keys)[i])]

\* df.loc[labels]: for each label in turn, the rows that carry it.
RECURSIVE Loc(_, _)
Loc(df, labels) ==
    IF labels = << >> THEN << >>
    ELSE SelectSeq(df, LAMBDA r : r.index = Head(labels)) \o Loc(df, Tail(labels))

\* get_best_models_info(col_names, bucket, pred_type, ...,
\* selection_type=...), with subset and metric_type left at their defaults,
\* given the tracker's answers to its queries.
get_best_models_info(events, pred_type, selection_type) ==
    LET metric_type == MetricType(pred_type)
        top_models_info == BestModelsQueries(events, QueryPositions(events), metric_type, << >>)
        top_models_df == concat_ignore_index(top_models_info)
        selection_col == IF metric_type = "r2_score" THEN "r2_score_valid"
                         ELSE "roc_auc_score_valid"
    IN  IF top_models_info = << >>
        THEN NoTable
        ELSE [raised |-> "none", is_none |-> FALSE,
              rows |-> Loc(top_models_df,
                           GroupIdx(top_models_df, selection_col, selection_type = "max"))]

(***************************************************************************)
(* compare_models.py: get_summary_perf_tables.                             *)
(***************************************************************************)
\* The models the tracker yields over the collections of collection_names,
\* one collection after the other; each is named by whether it has
\* 'ModelMetrics', its split_strategy, the kind of its TrainingRun list and
\* its model type.
SummaryModelId(has_metrics, split_strategy, runs, model_type) ==
    [has_metrics |-> has_metrics, split_strategy |-> split_strategy, runs |-> runs,
     model_type |-> model_type]

SummaryModelIds ==
    {SummaryModelId(TRUE, ss, runs, "NN") :
        ss \in {"train_valid_test", "k_fold_cv"}, runs \in {"best", "best_final"}}
    \cup {SummaryModelId(TRUE, "train_valid_test", "best", t) : t \in {"RF", "xgboost", "hybrid"}}
    \cup {SummaryModelId(TRUE, "k_fold_cv", "two", "NN"),
          SummaryModelId(TRUE, "train_valid_test", "no_best_valid", "NN"),
          SummaryModelId(TRUE, "train_valid_test", "none", "NN"),
          SummaryModelId(FALSE, "train_valid_test", "none", "NN")}

\* Lines 884-887 without the case of k-fold cross-validation.
DatasetSize_all_subsets(split_strategy, subset_metrics) ==
    subset_metrics["train"].PredictionResults.num_compounds
    + subset_metrics["valid"].PredictionResults.num_compounds
    + subset_metrics["test"].PredictionResults.num_compounds

\* Lines 884-887: dset_size, once the subsets it reads are known to be there.
DatasetSize(split_strategy, subset_metrics) ==
    IF split_strategy = "k_fold_cv"
    THEN subset_metrics["train"].PredictionResults.num_compounds
         + subset_metrics["test"].PredictionResults.num_compounds
    ELSE subset_metrics["train"].PredictionResults.num_compounds
         + subset_metrics["valid"].PredictionResults.num_compounds
         + subset_metrics["test"].PredictionResults.num_compounds

\* The loop over the models of get_summary_perf_tables: st holds the rows
\* appended to the lists and the exception raised.
RECURSIVE SummaryPerfLoop(_, _, _)
SummaryPerfLoop(models, i, st) ==
    IF i > Len(models) \/ st.raised # "none" THEN st
    ELSE LET metadata_dict == models[i]
             metrics_dicts == TrainingRuns(0)[metadata_dict.runs]
             subset_metrics == SubsetMetrics(metrics_dicts)
             split_strategy == metadata_dict.split_strategy
         IN  IF ~metadata_dict.has_metrics
             THEN SummaryPerfLoop(models, i + 1, st)
             ELSE IF metadata_dict.model_type \notin {"NN", "RF", "xgboost"}
             THEN [st EXCEPT !.raised = "Exception"]
             ELSE IF \E s \in {"train", "valid", "test"} : ~subset_metrics[s].present
             THEN [st EXCEPT !.raised = "KeyError"]
             ELSE SummaryPerfLoop(models, i + 1,
                     [st EXCEPT !.rows = Append(@,
                         [model_uuid |-> i, split_strategy |-> split_strategy,
                          dataset_size |-> DatasetSize(split_strategy, subset_metrics),
                          train_size |-> subset_metrics["train"].PredictionResults.num_compounds,
                          valid_size |-> subset_metrics["valid"].PredictionResults.num_compounds,
                          test_size |-> subset_metrics["test"].PredictionResults.num_compounds])])

\* get_summary_perf_tables(collection_names, filter_dict, prediction_type),
\* given the models the tracker yields.
get_summary_perf_tables(models) ==
    LET st == SummaryPerfLoop(models, 1, [rows |-> << >>, raised |-> "none"])
    IN  IF st.raised # "none" THEN TableRaised(st.raised)
        ELSE [raised |-> "none", is_none |-> FALSE, rows |-> st.rows]

(***************************************************************************)
(* Specification SpecCmp: one call of a function of compare_models.py on   *)
(* tracker answers drawn from a bounded set.                               *)
(***************************************************************************)
ModelDatasetsInputs ==
    {[name |-> "get_model_datasets", arg |-> ev] :
        ev \in EventSeqs({CollectionEvent(n) : n \in CollectionNames}, DatasetModelEvents)}

TrainingPerfInputs ==
    {[name |-> "get_training_perf_table",
      arg |-> [models |-> models, pred_type |-> pred_type]] :
        models \in SeqsUpTo(PerfModelIds, MaxLen),
        pred_type \in {"regression", "classification"}}

BestModelsInputs ==
    {[name |-> "get_best_models_info",
      arg |-> [events |-> ev, pred_type |-> pred_type, selection_type |-> selection_type]] :
        ev \in EventSeqs(BestQueryEvents, BestModelEvents),
        pred_type \in {"regression", "classification"},
        selection_type \in {"max", "min"}}

SummaryPerfInputs ==
    {[name |-> "get_summary_perf_tables", arg |-> models] :
        models \in SeqsUpTo(SummaryModelIds, MaxLen)}

InitCmp ==
    /\ params = NoParams
    /\ env = [spec_primary |-> SpecFails, spec_fallback |-> SpecFails,
              molvae_imported |-> FALSE]
    /\ supported = NoSupported
    /\ obj = NoObj
    /\ raised = "none"
    /\ ncalls = 0
    /\ reads = 0
    /\ last = NoLast
    /\ \/ fin \in ModelDatasetsInputs
       \/ fin \in TrainingPerfInputs
       \/ fin \in BestModelsInputs
       \/ fin \in SummaryPerfInputs
    /\ fout = NoFun

GetModelDatasets == Call("get_model_datasets", get_model_datasets(fin.arg))

GetTrainingPerfTable ==
    /\ fin.name = "get_training_perf_table"
    /\ \E r \in get_training_perf_table(PerfModels(fin.arg.models), fin.arg.pred_type) :
          Call("get_training_perf_table", r)

GetBestModelsInfo ==
    /\ fin.name = "get_best_models_info"
    /\ Call("get_best_models_info",
            get_best_models_info(fin.arg.events, fin.arg.pred_type, fin.arg.selection_type))

GetSummaryPerfTables == Call("get_summary_perf_tables", get_summary_perf_tables(fin.arg))

NextCmp ==
    \/ GetModelDatasets
    \/ GetTrainingPerfTable
    \/ GetBestModelsInfo
    \/ GetSummaryPerfTables

SpecCmp == InitCmp /\ [][NextCmp]_vars

(***************************************************************************)
(* Claims about the table functions of compare_models.py.                  *)
(***************************************************************************)
\* Whether model event i answers a query to a collection that is queried.
InQueriedCollection(events, i) == ~EndsWith(events[QueryOf(events, i)].name, s_metrics)

\* C11: get_model_datasets returns without raising a dictionary whose keys
\* are the (dataset_key, bucket) pairs of the models that were yielded for a
\* collection whose name does not end with '_metrics', have 'ModelMetrics'
\* and have model_uuid, dataset_key and bucket; each key maps to the
\* model_uuids of exactly these models trained on it, in the order they were
\* yielded; no collection whose name ends with '_metrics' is queried, every
\* other one is.
C11_ModelDatasets ==
    fout.name = "get_model_datasets"
        => LET events == fin.arg
               out == fout.res.value
               Counted(i) ==
                   /\ events[i].kind = "model"
                   /\ InQueriedCollection(events, i)
                   /\ events[i].has_metrics
                   /\ events[i].has_uuid /\ events[i].has_key /\ events[i].has_bucket
               Of(ds) == {i \in 1..Len(events) : Counted(i) /\ events[i].dataset = ds}
           IN  /\ fout.res.raised = "none"
               /\ \A k, l \in 1..Len(out) : k # l => out[k].key # out[l].key
               /\ \A k \in 1..Len(out) :
                     Of(out[k].key) # {} /\ out[k].val = Ascending(Of(out[k].key))
               /\ \A ds \in DatasetPairs :
                     Of(ds) # {} => \E k \in 1..Len(out) : out[k].key = ds
               /\ \A k \in 1..Len(fout.res.queried) :
                     ~EndsWith(events[fout.res.queried[k]].name, s_metrics)
               /\ \A q \in 1..Len(events) :
                     (events[q].kind = "collection" /\ ~EndsWith(events[q].name, s_metrics))
                        => \E k \in 1..Len(fout.res.queried) : fout.res.queried[k] = q

\* Two models of one dataset around a model without ModelMetrics.
C11_Witness ==
    /\ fout.name = "get_model_datasets"
    /\ Len(fin.arg) = 4
    /\ fin.arg[1] = CollectionEvent(n_a)
    /\ fin.arg[2] = ModelEvent(TRUE, TRUE, TRUE, TRUE, <<1, 2>>)
    /\ ~fin.arg[3].has_metrics
    /\ fin.arg[4] = fin.arg[2]
    /\ fout.res.value = <<[key |-> <<1, 2>>, val |-> <<2, 4>>]>>

\* A collection of metrics, whose models are not read, before a collection
\* whose only model lacks its bucket.
C11_WitnessSkipped ==
    /\ fout.name = "get_model_datasets"
    /\ Len(fin.arg) = 4
    /\ fin.arg[1] = CollectionEvent(n_a_metrics)
    /\ fin.arg[2] = ModelEvent(TRUE, TRUE, TRUE, TRUE, <<1, 1>>)
    /\ fin.arg[3] = CollectionEvent(n_metrics_a)
    /\ fin.arg[4] = ModelEvent(TRUE, TRUE, TRUE, FALSE, <<1, 1>>)
    /\ fout.res.value = << >>
    /\ fout.res.queried = <<3>>

\* The metadata a model carries when its training run was recorded in full:
\* best-epoch metrics for the three subsets unless it has fewer than three
\* entries, and one of the model types of the pipeline.
CompleteMetrics(m) ==
    /\ m.model_type \in {"NN", "RF", "xgboost"}
    /\ Len(m.TrainingRun) >= 3 =>
          \A s \in {"train", "valid", "test"} : SubsetMetrics(m.TrainingRun)[s].present

C12_WitnessNone ==
    /\ fout.name = "get_training_perf_table"
    /\ fin.arg.models = << >>
    /\ fout.res.is_none

\* Whether the model at event i is collected by get_best_models_info: its
\* query did not fail, and it and the models yielded before it for the query
\* have at least three TrainingRun entries.
Collected(events, i) ==
    /\ events[i].kind = "model"
    /\ events[QueryOf(events, i)].kind = "query"
    /\ \A j \in (QueryOf(events, i) + 1)..i : Len(TrainingRuns(events[j].v)[events[j].runs]) >= 3

\* The value of the selection column of the model at event i.
SelectionValue(events, i, pred_type) ==
    LET best == SubsetMetrics(TrainingRuns(events[i].v)[events[i].runs])["valid"].PredictionResults
    IN  IF pred_type = "regression" THEN best.r2_score ELSE best.roc_auc_score

\* C13: get_best_models_info returns None when no model metadata was
\* collected; otherwise its table has exactly one row for each dataset_key
\* with a collected model, no other row, and the row of a dataset_key is a
\* collected model of that dataset_key whose value in the selection column
\* is the largest (selection_type 'max') or the smallest (any other
\* selection_type) of the models collected for the dataset_key over all
\* queries.
C13_BestModelsInfo ==
    fout.name = "get_best_models_info"
        => LET events == fin.arg.events
               rows == fout.res.rows
               Of(key) == {i \in 1..Len(events) :
                              Collected(events, i)
                              /\ events[QueryOf(events, i)].dataset_key = key}
               Val(i) == SelectionValue(events, i, fin.arg.pred_type)
               col == IF fin.arg.pred_type = "regression" THEN "r2_score_valid"
                      ELSE "roc_auc_score_valid"
           IN  /\ fout.res.raised = "none"
               /\ fout.res.is_none <=> \A key \in BestDatasetKeys : Of(key) = {}
               /\ \A key \in BestDatasetKeys :
                     Cardinality({k \in 1..Len(rows) : rows[k].dataset_key = key})
                        = IF Of(key) = {} THEN 0 ELSE 1
               /\ \A k \in 1..Len(rows) :
                     /\ rows[k].dataset_key \in BestDatasetKeys
                     /\ rows[k].model_uuid \in Of(rows[k].dataset_key)
                     /\ rows[k][col] = Val(rows[k].model_uuid)
                     /\ \A i \in Of(rows[k].dataset_key) :
                           IF fin.arg.selection_type = "max"
                           THEN rows[k][col] >= Val(i)
                           ELSE rows[k][col] <= Val(i)

\* Two queries for dataset 2, the larger r2_score in the answer to the
\* second, before a query for dataset 1.
C13_Witness ==
    /\ fout.name = "get_best_models_info"
    /\ fin.arg.pred_type = "regression"
    /\ fin.arg.selection_type = "max"
    /\ Len(fin.arg.events) >= 4
    /\ fin.arg.events[1] = BestQueryEvent(2, FALSE)
    /\ fin.arg.events[2] = BestModelEvent("best", 1)
    /\ fin.arg.events[3] = BestQueryEvent(2, FALSE)
    /\ fin.arg.events[4] = BestModelEvent("best", 2)
    /\ Len(fout.res.rows) = 1
    /\ fout.res.rows[1].model_uuid = 4

\* Models of two datasets, the smallest roc_auc_score selected.
C13_WitnessMin ==
    /\ fout.name = "get_best_models_info"
    /\ fin.arg.pred_type = "classification"
    /\ fin.arg.selection_type = "min"
    /\ Len(fin.arg.events) = 4
    /\ fin.arg.events[1] = BestQueryEvent(2, FALSE)
    /\ fin.arg.events[2] = BestModelEvent("best", 1)
    /\ fin.arg.events[3] = BestModelEvent("best", 2)
    /\ fin.arg.events[4] = BestQueryEvent(1, FALSE)
    /\ Len(fout.res.rows) = 1
    /\ fout.res.rows[1].model_uuid = 3

\* No query yields a model with complete metrics.
C13_WitnessNone ==
    /\ fout.name = "get_best_models_info"
    /\ Len(fin.arg.events) = 2
    /\ fin.arg.events[2] = BestModelEvent("two", 0)
    /\ fout.res.is_none

\* The num_compounds of the metrics labelled 'best' for a subset.
BestNumCompounds(runs, subset) ==
    LET m == CHOOSE k \in 1..Len(runs) : runs[k].label = "best" /\ runs[k].subset = subset
    IN  runs[m].PredictionResults.num_compounds

\* A model with 'ModelMetrics' whose metadata is complete: best-epoch
\* metrics for the three subsets and one of the model types of the pipeline.
CompleteSummary(m) ==
    m.has_metrics =>
        /\ m.model_type \in {"NN", "RF", "xgboost"}
        /\ \A s \in {"train", "valid", "test"} :
              \E k \in 1..Len(TrainingRuns(0)[m.runs]) :
                 TrainingRuns(0)[m.runs][k].label = "best" /\ TrainingRuns(0)[m.runs][k].subset = s

FoundInTable(l) ==
    IF l.loaded /\ GoodTable(l.table_loaded) THEN SmilesOf(l.table_loaded.rows) ELSE {}

\* C15: a successful ComputedDescriptorFeaturization.featurize_data saves a
\* featurized dataset in which every dataset row whose SMILES is found in
\* the precomputed table or is computed successfully appears exactly once,
\* also when several compound IDs share one SMILES, and which has no other
\* row; features, ids, vals and attr are those of the saved rows, row by
\* row.
C15_RowsConserved ==
    (last.op = "featurize_data" /\ obj.class = "ComputedDescriptorFeaturization"
        /\ raised = "none")
        => LET dset == last.dset
               saved == last.saved
               Kept(i) == dset[i].smiles \in FoundInTable(last) \/ ValidSmiles(dset[i].smiles)
           IN  /\ \A i \in 1..Len(dset) :
                     Kept(i) => Cardinality({k \in 1..Len(saved) : saved[k].id = i}) = 1
               /\ \A k \in 1..Len(saved) :
                     /\ saved[k].id \in 1..Len(dset)
                     /\ Kept(saved[k].id)
                     /\ saved[k].smiles = dset[saved[k].id].smiles
               /\ \A c \in 1..4 : Len(last.ret[c]) = Len(saved)
               /\ \A k \in 1..Len(saved) :
                     /\ last.ret[1][k] = <<saved[k].d1, saved[k].d2>>
                     /\ last.ret[2][k] = saved[k].id
                     /\ last.ret[3][k] = <<"response", saved[k].id>>
                     /\ last.ret[4][k] = [id |-> saved[k].id, smiles |-> saved[k].smiles]

\* Two compounds of the dataset share a SMILES that the loaded table has.
C15_Witness ==
    /\ last.op = "featurize_data"
    /\ obj.class = "ComputedDescriptorFeaturization"
    /\ raised = "none"
    /\ last.dset = DatasetOf(<<"C", "C">>)
    /\ "C" \in FoundInTable(last)
    /\ Len(last.saved) = 1

\* The same without the datasets in which two compounds share a SMILES that
\* is found in the table.
C15_RowsConservedDistinct ==
    (last.op = "featurize_data"
        /\ \A i, j \in 1..Len(last.dset) :
              (i # j /\ last.dset[i].smiles = last.dset[j].smiles)
                  => last.dset[i].smiles \notin FoundInTable(last))
        => C15_RowsConserved

\* Two compounds share a SMILES that is computed: both are saved.
C15_WitnessComputed ==
    /\ last.op = "featurize_data"
    /\ obj.class = "ComputedDescriptorFeaturization"
    /\ raised = "none"
    /\ last.dset = DatasetOf(<<"CC", "CC">>)
    /\ last.compute_invoked
    /\ Len(last.saved) = 2
    /\ last.saved[1].id = 2

====
